---------------------------- MODULE Spec2Model ----------------------------
(***************************************************************************)
(* Record linkage of property owners and sale transactions:                *)
(*   Tier 1  exact composite-key join with an area-tolerance filter        *)
(*           (src/src/data_processing/matching/deterministic.py)           *)
(*   Tier 2  blocked fuzzy scoring with confidence buckets                 *)
(*           (src/matching/fuzzy.py)                                       *)
(*   Tier 3  merge of human review decisions                               *)
(*           (src/src/data_processing/matching/review_helpers.py,          *)
(*            src/examples/ui/review_app.py)                               *)
(*   and the orchestration of the three                                    *)
(*           (src/src/data_processing/matching/pipeline.py).               *)
(*                                                                         *)
(* Numbers.  Areas are integers (square metres); NaN is the one value      *)
(* pandas gives a missing or unparsable area.  A match score is an integer *)
(* number of ten-thousandths, the resolution of round(score, 4).  Clock    *)
(* values are whole seconds, the resolution of strftime('%Y%m%d_%H%M%S').  *)
(* A pandas DataFrame is a record [cols, rows]: its set of column names    *)
(* and the sequence of its rows.                                           *)
(***************************************************************************)
EXTENDS Integers, Sequences, FiniteSets, TLC

VARIABLES
    owners,         \* normalized owner table handed to the matchers
    transactions,   \* normalized transaction table handed to the matchers
    clock,          \* wall clock, in seconds
    t1runs,         \* results of the calls of tier1_deterministic_match so far
    t2runs,         \* calls of tier2_fuzzy_match so far, with their arguments
    cands0,         \* Tier 2 match frame the review decisions are merged into
    applied,        \* decision frames merged so far, in order
    results,        \* results[k]: outcome of merging applied[k]
    pc,             \* how the last run_matching_pipeline ended
    run,            \* locals of the last pipeline run that wrote outputs
    runs,           \* number of calls of run_matching_pipeline so far
    review_dir,     \* files of the review directory
    outputs,        \* files of the output directory
    session,        \* st.session_state of the review application
    pool,           \* state of a call of one of the parallel fuzzy matchers
    raw,            \* raw owner and transaction tables read from the source files
    norm            \* state of the Normalizer: which module, what it did

vars == <<owners, transactions, clock, t1runs, t2runs, cands0, applied, results,
          pc, run, runs, review_dir, outputs, session, pool, raw, norm>>

inputVars == <<owners, transactions>>
tier1Vars == <<t1runs>>
tier2Vars == <<t2runs>>
mergeVars == <<cands0, applied, results>>
pipeVars == <<pc, run, runs, review_dir, outputs>>
uiVars == <<session>>
parVars == <<pool>>
normVars == <<raw, norm>>

-----------------------------------------------------------------------------
(* Bounds of the model *)

MaxOwners == 1
MaxTxns == 2
MaxClock == 1
MaxRuns == 2
MaxDecisions == 2
MaxSessionDecisions == 1
MaxPipeOwners == 2

-----------------------------------------------------------------------------
(* Values *)

\* float('nan'): what pd.to_numeric(errors='coerce') leaves for a bad area
NaN == -999999

IsNaN(x) == x = NaN

Abs(x) == IF x < 0 THEN 0 - x ELSE x

\* area_tolerance_pct = 0.01, as the fraction TolNum / TolDen
TolNum == 1
TolDen == 100

Keys == {"k1", "k2"}
OwnerAreas == {NaN, -100, 0, 100}
TxnAreas == {NaN, 0, 100, 101, 103}

T1Cols == {"composite_key", "area_sqm"}

-----------------------------------------------------------------------------
(* Tier 1: tier1_deterministic_match *)

\* owners['owner_id'] = range(len(owners)) when the column is absent
WithOwnerIds(tbl) ==
    IF "owner_id" \in tbl.cols THEN tbl
    ELSE [cols |-> tbl.cols \cup {"owner_id"},
          rows |-> [i \in 1..Len(tbl.rows) |->
                      [tbl.rows[i] EXCEPT !.owner_id = i - 1]]]

WithTxnIds(tbl) ==
    IF "txn_id" \in tbl.cols THEN tbl
    ELSE [cols |-> tbl.cols \cup {"txn_id"},
          rows |-> [i \in 1..Len(tbl.rows) |->
                      [tbl.rows[i] EXCEPT !.txn_id = i - 1]]]

\* all (left row, right row) index pairs, left-major: the row order of an
\* inner pd.merge, which keeps the order of the left keys
IndexPairs(n, m) ==
    [k \in 1..(n * m) |-> <<((k - 1) \div m) + 1, ((k - 1) % m) + 1>>]

\* pd.merge(owners, transactions, on='composite_key', how='inner')
KeyJoin(os, ts) ==
    SelectSeq(IndexPairs(Len(os), Len(ts)),
              LAMBDA p : os[p[1]].composite_key = ts[p[2]].composite_key)

\* abs(area_owner - area_txn) / area_owner.replace(0, 1), as <<num, den>>;
\* NaN when either area is NaN
AreaDiffPct(area_owner, area_txn) ==
    IF IsNaN(area_owner) \/ IsNaN(area_txn) THEN <<NaN, 1>>
    ELSE <<Abs(area_owner - area_txn),
           IF area_owner = 0 THEN 1 ELSE area_owner>>

\* area_diff_pct <= area_tolerance_pct on floats: false for NaN, and a
\* quotient with a negative denominator is <= 0
WithinTolerance(d) ==
    IF IsNaN(d[1]) THEN FALSE
    ELSE IF d[2] > 0 THEN d[1] * TolDen <= TolNum * d[2]
    ELSE TRUE

AreaFilter(os, ts, pairs) ==
    SelectSeq(pairs, LAMBDA p :
        WithinTolerance(AreaDiffPct(os[p[1]].area_sqm, ts[p[2]].area_sqm)))

Tier1Row(o, t, now) ==
    [owner_id |-> o.owner_id,
     txn_id |-> t.txn_id,
     match_confidence |-> 10000,
     confidence_bucket |-> "High",
     review_status |-> "auto_approved",
     pipeline_run_id |-> now,
     match_method |-> "tier1_deterministic",
     area_diff_pct |-> AreaDiffPct(o.area_sqm, t.area_sqm)]

Range(s) == {s[i] : i \in 1..Len(s)}

Tier1Matches(os, ts, now) ==
    LET kept == AreaFilter(os, ts, KeyJoin(os, ts))
    IN  [i \in 1..Len(kept) |-> Tier1Row(os[kept[i][1]], ts[kept[i][2]], now)]

\* variant: the matched ids are taken from the key join before the area
\* filter
tier1_match_ids_before_filter(owners_df, transactions_df, now) ==
    IF ~(T1Cols \subseteq owners_df.cols) \/ ~(T1Cols \subseteq transactions_df.cols)
    THEN [status |-> "schema_error", matches |-> <<>>,
          unmatched_owners |-> <<>>, unmatched_transactions |-> <<>>]
    ELSE
      LET os == WithOwnerIds(owners_df).rows
          ts == WithTxnIds(transactions_df).rows
          joined == KeyJoin(os, ts)
          matched_owner_ids == {os[joined[i][1]].owner_id : i \in 1..Len(joined)}
          matched_txn_ids == {ts[joined[i][2]].txn_id : i \in 1..Len(joined)}
      IN  [status |-> "ok",
           matches |-> Tier1Matches(os, ts, now),
           unmatched_owners |->
               SelectSeq(os, LAMBDA o : o.owner_id \notin matched_owner_ids),
           unmatched_transactions |->
               SelectSeq(ts, LAMBDA t : t.txn_id \notin matched_txn_ids)]

tier1_deterministic_match(owners_df, transactions_df, now) ==
    IF ~(T1Cols \subseteq owners_df.cols) \/ ~(T1Cols \subseteq transactions_df.cols)
    THEN [status |-> "schema_error", matches |-> <<>>,
          unmatched_owners |-> <<>>, unmatched_transactions |-> <<>>]
    ELSE
      LET os == WithOwnerIds(owners_df).rows
          ts == WithTxnIds(transactions_df).rows
          ms == Tier1Matches(os, ts, now)
          matched_owner_ids == {ms[i].owner_id : i \in 1..Len(ms)}
          matched_txn_ids == {ms[i].txn_id : i \in 1..Len(ms)}
      IN  [status |-> "ok",
           matches |-> ms,
           unmatched_owners |->
               SelectSeq(os, LAMBDA o : o.owner_id \notin matched_owner_ids),
           unmatched_transactions |->
               SelectSeq(ts, LAMBDA t : t.txn_id \notin matched_txn_ids)]

-----------------------------------------------------------------------------
(* Tier 2: tier2_fuzzy_match and its scoring functions.                    *)
(* A component score is an exact fraction <<num, den>>, den > 0.           *)

\* rapidfuzz's fuzz.token_set_ratio(a, b) / 100 on the building names of the
\* model: 1 for equal token sets; 6/7 for "tower a" against "tower b"
\* (longest common subsequence "tower " of two 7-character strings); 1/2 for
\* "towxx" against either, which shares no token with them (longest common
\* subsequence "tow" of "a tower" and "towxx", 2 * 3 / 12)
TokenSetRatio(a, b) ==
    IF a = b THEN <<1, 1>>
    ELSE IF a = "towxx" \/ b = "towxx" THEN <<1, 2>>
    ELSE <<6, 7>>

\* None / NaN in a text column
NoText == "<NA>"

calculate_building_similarity(building_owner, building_txn) ==
    IF building_owner = NoText \/ building_txn = NoText THEN <<0, 1>>
    ELSE IF building_owner = "" \/ building_txn = "" THEN <<0, 1>>
    ELSE TokenSetRatio(building_owner, building_txn)

calculate_unit_match(unit_owner, unit_txn) ==
    IF unit_owner = NoText \/ unit_txn = NoText THEN 0
    ELSE IF unit_owner = unit_txn THEN 1 ELSE 0

\* max(0.0, 1.0 - (abs(ao - at) / ao) / 0.02) = max(0, (ao - 50 |ao - at|) / ao)
calculate_area_score(area_owner, area_txn) ==
    IF IsNaN(area_owner) \/ IsNaN(area_txn) \/ area_owner = 0 THEN <<0, 1>>
    ELSE LET d == Abs(area_owner - area_txn)
         IN  IF area_owner > 0
             THEN <<IF area_owner - 50 * d > 0 THEN area_owner - 50 * d ELSE 0,
                    area_owner>>
             ELSE <<Abs(area_owner) + 50 * d, Abs(area_owner)>>

\* round-half-even of n / d to an integer, n >= 0, d > 0
RoundHalfEven(n, d) ==
    LET q == n \div d
        r == n % d
    IN  IF 2 * r < d THEN q
        ELSE IF 2 * r > d THEN q + 1
        ELSE IF q % 2 = 0 THEN q ELSE q + 1

\* round(0.5 * building + 0.3 * unit + 0.2 * area, 4), in ten-thousandths.
\* The sum is whole + n / d with whole an integer and 0 <= n / d < 2; the
\* integer parts of the two quotients are taken out first, which keeps
\* every product within 32 bits.
calculate_fuzzy_score(building_sim, unit_match, area_score) ==
    LET qb == (5000 * building_sim[1]) \div building_sim[2]
        rb == (5000 * building_sim[1]) % building_sim[2]
        qa == area_score[1] \div area_score[2]
        ra == area_score[1] % area_score[2]
        whole == qb + 3000 * unit_match + 2000 * qa
        n == rb * area_score[2] + 2000 * ra * building_sim[2]
        d == building_sim[2] * area_score[2]
    IN  (whole - (whole % 2)) + RoundHalfEven(n + ((whole % 2) * d), d)

\* variant: the lower bounds are exclusive
assign_confidence_bucket_exclusive(score) ==
    IF score > 9000 THEN "High"
    ELSE IF score > 8500 THEN "Medium"
    ELSE IF score > 7500 THEN "Low"
    ELSE "Reject"

assign_confidence_bucket(score) ==
    IF score >= 9000 THEN "High"
    ELSE IF score >= 8500 THEN "Medium"
    ELSE IF score >= 7500 THEN "Low"
    ELSE "Reject"

\* min_score = 0.75 and max_candidates_per_owner = 5, the defaults the
\* pipeline calls Tier 2 with
MinScore == 7500
MaxCandidatesPerOwner == 5

T2Cols == {"project_clean", "building_clean", "unit_no", "area_sqm"}

T2MatchCols ==
    {"owner_id", "txn_id", "match_confidence", "confidence_bucket",
     "building_sim", "unit_match", "area_score", "project",
     "review_status", "pipeline_run_id", "match_method"}

EmptyFrame == [cols |-> {}, rows |-> <<>>]

Tier2Row(o, t, now) ==
    LET b == calculate_building_similarity(o.building_clean, t.building_clean)
        u == calculate_unit_match(o.unit_no, t.unit_no)
        a == calculate_area_score(o.area_sqm, t.area_sqm)
        s == calculate_fuzzy_score(b, u, a)
    IN  [owner_id |-> o.owner_id,
         txn_id |-> t.txn_id,
         match_confidence |-> s,
         confidence_bucket |-> assign_confidence_bucket(s),
         building_sim |-> b,
         unit_match |-> u,
         area_score |-> a,
         project |-> o.project_clean,
         review_status |-> "pending_review",
         pipeline_run_id |-> now,
         match_method |-> "tier2_fuzzy"]

\* list.sort(key=match_confidence, reverse=True): stable, highest first
RECURSIVE InsertByScore(_, _)
InsertByScore(sorted, c) ==
    IF sorted = <<>> THEN <<c>>
    ELSE IF Head(sorted).match_confidence >= c.match_confidence
         THEN <<Head(sorted)>> \o InsertByScore(Tail(sorted), c)
         ELSE <<c>> \o sorted

RECURSIVE SortByScore(_)
SortByScore(cs) ==
    IF cs = <<>> THEN <<>>
    ELSE InsertByScore(SortByScore(SubSeq(cs, 1, Len(cs) - 1)), cs[Len(cs)])

FirstN(s, n) == SubSeq(s, 1, IF Len(s) < n THEN Len(s) ELSE n)

\* the candidates of one owner against the transactions of its block
OwnerCandidates(o, block_txns, now, min_score, max_candidates_per_owner) ==
    LET scored == [j \in 1..Len(block_txns) |-> Tier2Row(o, block_txns[j], now)]
        above == SelectSeq(scored, LAMBDA c : c.match_confidence >= min_score)
    IN  FirstN(SortByScore(above), max_candidates_per_owner)

RECURSIVE BlockCandidates(_, _, _, _, _)
BlockCandidates(block_owners, block_txns, now, min_score, max_candidates_per_owner) ==
    IF block_owners = <<>> THEN <<>>
    ELSE OwnerCandidates(Head(block_owners), block_txns, now,
                         min_score, max_candidates_per_owner)
           \o BlockCandidates(Tail(block_owners), block_txns, now,
                              min_score, max_candidates_per_owner)

\* the blocking keys in the order groupby('project_clean') yields them
ProjectOrder == <<"dubai hills", "emaar south">>

\* variant: no blocking, every owner is compared with every transaction
AllCandidatesUnblocked(os, ts, projects, now, min_score, max_candidates_per_owner) ==
    BlockCandidates(os, ts, now, min_score, max_candidates_per_owner)

RECURSIVE AllCandidates(_, _, _, _, _, _)
AllCandidates(os, ts, projects, now, min_score, max_candidates_per_owner) ==
    IF projects = <<>> THEN <<>>
    ELSE LET p == Head(projects)
             po == SelectSeq(os, LAMBDA o : o.project_clean = p)
             pt == SelectSeq(ts, LAMBDA t : t.project_clean = p)
         IN  (IF po = <<>> \/ pt = <<>> THEN <<>>
              ELSE BlockCandidates(po, pt, now, min_score, max_candidates_per_owner))
               \o AllCandidates(os, ts, Tail(projects), now,
                                min_score, max_candidates_per_owner)

\* variant: the Low bucket is accepted too
AcceptedMatchesWithLow(all_matches) ==
    SelectSeq(all_matches,
              LAMBDA c : c.confidence_bucket \in {"High", "Medium", "Low"})

\* matches_df[matches_df['confidence_bucket'].isin(['High', 'Medium'])]
AcceptedMatches(all_matches) ==
    SelectSeq(all_matches, LAMBDA c : c.confidence_bucket \in {"High", "Medium"})

tier2_fuzzy_match(owners_df, transactions_df, now, min_score, max_candidates_per_owner) ==
    IF Len(owners_df.rows) = 0 \/ Len(transactions_df.rows) = 0
    THEN [status |-> "ok", matches |-> EmptyFrame, candidates |-> <<>>,
          unmatched_owners |-> owners_df.rows,
          unmatched_transactions |-> transactions_df.rows]
    ELSE IF ~(T2Cols \subseteq owners_df.cols) \/ ~(T2Cols \subseteq transactions_df.cols)
    THEN [status |-> "schema_error", matches |-> EmptyFrame, candidates |-> <<>>,
          unmatched_owners |-> <<>>, unmatched_transactions |-> <<>>]
    ELSE
      LET os == WithOwnerIds(owners_df).rows
          ts == WithTxnIds(transactions_df).rows
          all_matches == AllCandidates(os, ts, ProjectOrder, now,
                                       min_score, max_candidates_per_owner)
          accepted == AcceptedMatches(all_matches)
          matched_owner_ids == {accepted[i].owner_id : i \in 1..Len(accepted)}
          matched_txn_ids == {accepted[i].txn_id : i \in 1..Len(accepted)}
      IN  IF all_matches = <<>>
          THEN [status |-> "ok", matches |-> EmptyFrame, candidates |-> <<>>,
                unmatched_owners |-> os, unmatched_transactions |-> ts]
          ELSE [status |-> "ok",
                matches |-> [cols |-> T2MatchCols, rows |-> accepted],
                candidates |-> all_matches,
                unmatched_owners |->
                    SelectSeq(os, LAMBDA o : o.owner_id \notin matched_owner_ids),
                unmatched_transactions |->
                    SelectSeq(ts, LAMBDA t : t.txn_id \notin matched_txn_ids)]

-----------------------------------------------------------------------------
(* Tier 3: merge_review_decisions *)

\* NaN in the review_status_review column of a candidate no decision matches
NoReview == "<NaN>"

ReviewCols == {"review_status_review", "reviewer_notes"}

DecisionCols == {"owner_id", "txn_id", "review_status", "reviewer_notes"}

\* one output row of the left merge: the candidate with the decision's
\* review_status (suffixed _review) and reviewer_notes attached
Attach(c, status, notes) ==
    [review_status_review |-> status, reviewer_notes |-> notes] @@ c

\* mutant: the join matches a decision on owner_id alone
LeftMergeRowOwnerOnly(c, ds) ==
    LET hits == SelectSeq(ds, LAMBDA d : d.owner_id = c.owner_id)
    IN  IF hits = <<>> THEN <<Attach(c, NoReview, NoReview)>>
        ELSE [i \in 1..Len(hits) |->
                 Attach(c, hits[i].review_status, hits[i].reviewer_notes)]

\* the rows a candidate yields in matches.merge(decisions, how='left'): one
\* per decision on its (owner_id, txn_id), in decision order, or one with NaN
LeftMergeRow(c, ds) ==
    LET hits == SelectSeq(ds, LAMBDA d :
                    d.owner_id = c.owner_id /\ d.txn_id = c.txn_id)
    IN  IF hits = <<>> THEN <<Attach(c, NoReview, NoReview)>>
        ELSE [i \in 1..Len(hits) |->
                 Attach(c, hits[i].review_status, hits[i].reviewer_notes)]

RECURSIVE LeftMerge(_, _)
LeftMerge(cs, ds) ==
    IF cs = <<>> THEN <<>>
    ELSE LeftMergeRow(Head(cs), ds) \o LeftMerge(Tail(cs), ds)

\* lines 163-165: reviewed rows take the decision's status
TakeReviewStatus(r) ==
    IF r.review_status_review # NoReview
    THEN [r EXCEPT !.review_status = r.review_status_review]
    ELSE r

\* mutant: an approved row becomes High but keeps its score
PromoteApprovedBucketOnly(r) ==
    IF r.review_status = "approved"
    THEN [r EXCEPT !.confidence_bucket = "High"]
    ELSE r

\* lines 167-170: approved rows become High with confidence 0.95
PromoteApproved(r) ==
    IF r.review_status = "approved"
    THEN [r EXCEPT !.confidence_bucket = "High", !.match_confidence = 9500]
    ELSE r

\* lines 172-174: rejected rows are removed
DropRejected(rs) == SelectSeq(rs, LAMBDA r : r.review_status # "rejected")

\* The result is [raised, df].  A frame that already carries the column
\* review_status_review gets a second column of that name from the merge;
\* matches['review_status_review'] is then a two-column frame, and indexing
\* .loc with its notna() mask raises ValueError.
merge_review_decisions(fuzzy_matches_df, decisions_df) ==
    IF Len(fuzzy_matches_df.rows) = 0 THEN [raised |-> FALSE, df |-> fuzzy_matches_df]
    ELSE IF Len(decisions_df.rows) = 0 THEN [raised |-> FALSE, df |-> fuzzy_matches_df]
    ELSE IF "review_status_review" \in fuzzy_matches_df.cols
    THEN [raised |-> TRUE, df |-> fuzzy_matches_df]
    ELSE
      LET merged == LeftMerge(fuzzy_matches_df.rows, decisions_df.rows)
          updated == [i \in 1..Len(merged) |->
                         PromoteApproved(TakeReviewStatus(merged[i]))]
      IN  [raised |-> FALSE,
           df |-> [cols |-> fuzzy_matches_df.cols \cup ReviewCols,
                   rows |-> DropRejected(updated)]]

-----------------------------------------------------------------------------
(* Review files and the state of a pipeline run *)

NoFile == [exists |-> FALSE, rows |-> <<>>]
File(rows) == [exists |-> TRUE, rows |-> rows]

\* no pipeline run started, empty directories, review application not opened
EmptyRun ==
    [tier1_matches |-> <<>>, tier2_matches |-> EmptyFrame, candidates |-> <<>>,
     unmatched_owners |-> <<>>, unmatched_transactions |-> <<>>,
     review_pairs |-> <<>>, review_decisions |-> <<>>, decision_files |-> <<>>,
     all_matches |-> <<>>, stages |-> <<>>, error |-> "none"]

NewSession == [review_pairs |-> <<>>, current_index |-> 0, decisions |-> <<>>]

\* no parallel matcher has been called
IdlePool ==
    [state |-> "idle", matcher |-> "none", max_workers |-> 0, batches |-> <<>>,
     status |-> <<>>, completed |-> <<>>, all_matches |-> <<>>, errors |-> {},
     next |-> 1, result |-> <<>>]

ParallelIdle == pool = IdlePool

\* no raw source is loaded and the Normalizer has not run
IdleNorm ==
    [module |-> "none", owners_done |-> FALSE, transactions_done |-> FALSE,
     error |-> "none", log |-> <<>>]

NormalizerIdle ==
    /\ raw = [owners |-> EmptyFrame, transactions |-> EmptyFrame]
    /\ norm = IdleNorm

PipelineIdle ==
    /\ pc = "idle"
    /\ run = EmptyRun
    /\ runs = 0
    /\ review_dir = [pairs |-> NoFile, decisions |-> <<>>]
    /\ outputs = [matches |-> NoFile, owners_unmatched |-> NoFile,
                  transactions_unmatched |-> NoFile]
    /\ session = NewSession

-----------------------------------------------------------------------------
(* Specification of repeated Tier 1 calls on one pair of normalized inputs *)

OwnerRow(k, a) ==
    [owner_id |-> 0, composite_key |-> k, area_sqm |-> a]

TxnRow(k, a) ==
    [txn_id |-> 0, composite_key |-> k, area_sqm |-> a]

OwnerRows == {OwnerRow(k, a) : k \in Keys, a \in OwnerAreas}
TxnRows == {TxnRow(k, a) : k \in Keys, a \in TxnAreas}

SeqsUpTo(S, n) == UNION {[1..k -> S] : k \in 0..n}

InitTier1 ==
    /\ \E rows \in SeqsUpTo(OwnerRows, MaxOwners) :
           owners = [cols |-> T1Cols, rows |-> rows]
    /\ \E rows \in SeqsUpTo(TxnRows, MaxTxns) :
           transactions = [cols |-> T1Cols, rows |-> rows]
    /\ clock = 0
    /\ t1runs = <<>>
    /\ t2runs = <<>>
    /\ cands0 = EmptyFrame
    /\ applied = <<>>
    /\ results = <<>>
    /\ PipelineIdle
    /\ NormalizerIdle
    /\ ParallelIdle

Tick ==
    /\ clock < MaxClock
    /\ clock' = clock + 1
    /\ UNCHANGED <<inputVars, tier1Vars, tier2Vars, mergeVars, pipeVars, uiVars, parVars, normVars>>

RunTier1 ==
    /\ Len(t1runs) < MaxRuns
    /\ t1runs' = Append(t1runs, tier1_deterministic_match(owners, transactions, clock))
    /\ UNCHANGED <<inputVars, clock, tier2Vars, mergeVars, pipeVars, uiVars, parVars, normVars>>

NextTier1 == Tick \/ RunTier1

SpecTier1 == InitTier1 /\ [][NextTier1]_vars

-----------------------------------------------------------------------------
(* Specification of merge_review_decisions applied to a Tier 2 match frame, *)
(* once and then again with a decision set that extends the first           *)

\* normalized rows as Tier 2 reads them
T2OwnerRow(b, a) ==
    [owner_id |-> 0, project_clean |-> "dubai hills", building_clean |-> b,
     unit_no |-> "0101", area_sqm |-> a]

T2TxnRow(b, a) ==
    [txn_id |-> 0, project_clean |-> "dubai hills", building_clean |-> b,
     unit_no |-> "0101", area_sqm |-> a]

MergeOwnerRows == {T2OwnerRow("tower a", 200)}
\* transactions scoring High (1.0), Medium (0.85) and Low (0.7786) against it
MergeTxnRows ==
    {T2TxnRow("tower a", 200), T2TxnRow("tower a", 203), T2TxnRow("tower b", 203)}

\* the ids a reviewer's decisions can name
DecisionIds == {0, 1}
Statuses == {"approved", "rejected"}

\* a row of a decisions file, as the review UI builds it
Decision(o, t, st) ==
    [owner_id |-> o, txn_id |-> t, review_status |-> st, reviewer_notes |-> ""]

Decisions == {Decision(o, t, st) : o \in DecisionIds, t \in DecisionIds, st \in Statuses}

DecisionFrame(ds) == [cols |-> DecisionCols, rows |-> ds]

InitMerge ==
    /\ \E rows \in SeqsUpTo(MergeOwnerRows, MaxOwners) :
           owners = [cols |-> T2Cols, rows |-> rows]
    /\ \E rows \in SeqsUpTo(MergeTxnRows, MaxTxns) :
           transactions = [cols |-> T2Cols, rows |-> rows]
    /\ clock = 0
    /\ t1runs = <<>>
    /\ t2runs = <<>>
    /\ cands0 = tier2_fuzzy_match(owners, transactions, clock,
                                  MinScore, MaxCandidatesPerOwner).matches
    /\ applied = <<>>
    /\ results = <<>>
    /\ PipelineIdle
    /\ NormalizerIdle
    /\ ParallelIdle

\* the frame the k-th merge is given
MergeInput(k) == IF k = 1 THEN cands0 ELSE results[k - 1].df

MergeFirst ==
    /\ applied = <<>>
    /\ \E ds \in SeqsUpTo(Decisions, MaxDecisions) :
          /\ applied' = <<DecisionFrame(ds)>>
          /\ results' = <<merge_review_decisions(cands0, DecisionFrame(ds))>>
    /\ UNCHANGED <<inputVars, clock, tier1Vars, tier2Vars, cands0, pipeVars, uiVars, parVars, normVars>>

\* a later merge of a superset: the decisions merged before, then more
MergeAgain ==
    /\ Len(applied) = 1
    /\ ~results[1].raised
    /\ \E more \in SeqsUpTo(Decisions, MaxDecisions) :
          /\ Len(applied[1].rows) + Len(more) <= MaxDecisions
          /\ LET d2 == DecisionFrame(applied[1].rows \o more)
             IN  /\ applied' = Append(applied, d2)
                 /\ results' = Append(results, merge_review_decisions(results[1].df, d2))
    /\ UNCHANGED <<inputVars, clock, tier1Vars, tier2Vars, cands0, pipeVars, uiVars, parVars, normVars>>

NextMerge == MergeFirst \/ MergeAgain

SpecMerge == InitMerge /\ [][NextMerge]_vars

-----------------------------------------------------------------------------
(* The pipeline: run_matching_pipeline, and the review files around it *)

\* export_review_candidates: the Low rows of the frame it is given, joined
\* with owner and transaction details, review_status set to 'pending'
export_review_candidates(fuzzy_matches_df) ==
    IF Len(fuzzy_matches_df.rows) = 0 THEN <<>>
    ELSE LET low == SelectSeq(fuzzy_matches_df.rows,
                        LAMBDA r : r.confidence_bucket = "Low")
         IN  [i \in 1..Len(low) |-> [low[i] EXCEPT !.review_status = "pending"]]

\* the rows of every decisions file of the directory, oldest file first
RECURSIVE AllDecisionRows(_)
AllDecisionRows(files) ==
    IF files = <<>> THEN <<>>
    ELSE Head(files).rows \o AllDecisionRows(Tail(files))

\* load_review_decisions(review_dir=...): the rows of the decisions_*.parquet
\* file with the latest timestamp in its name; files are kept oldest first
load_review_decisions(files) ==
    IF files = <<>> THEN <<>>
    ELSE files[Len(files)].rows

PipeCols == T1Cols \cup T2Cols \cup {"owner_id", "txn_id"}

\* write_pipeline_outputs: matches.parquet always, the unmatched files only
\* when they have rows
write_pipeline_outputs(out, matches, unmatched_owners, unmatched_transactions) ==
    [matches |-> File(matches),
     owners_unmatched |->
         IF Len(unmatched_owners) > 0 THEN File(unmatched_owners)
         ELSE out.owners_unmatched,
     transactions_unmatched |->
         IF Len(unmatched_transactions) > 0 THEN File(unmatched_transactions)
         ELSE out.transactions_unmatched]

\* generate_qa_report raises ZeroDivisionError on line 267 when there is no
\* match: bucket_dist.get('High', 0) / total_matches is 0 / 0
QaReportRaises(matches) == Len(matches) = 0

\* Tier 2 given the full tables instead of what Tier 1 left unmatched
AllRecords(t1, owners_df, transactions_df) ==
    [owners |-> WithOwnerIds(owners_df), transactions |-> WithTxnIds(transactions_df)]

\* the tables tier2_fuzzy_match is called with: unmatched_owners and
\* unmatched_transactions as tier1_deterministic_match returned them
Tier1Residuals(t1, owners_df, transactions_df) ==
    [owners |-> [cols |-> owners_df.cols \cup {"owner_id"},
                 rows |-> t1.unmatched_owners],
     transactions |-> [cols |-> transactions_df.cols \cup {"txn_id"},
                       rows |-> t1.unmatched_transactions]]

\* One call of run_matching_pipeline on the preprocessed inputs: Tier 1,
\* Tier 2 on what Tier 1 left unmatched, export of the review candidates, one
\* read of the review directory, the merge of the decisions read, the
\* concatenation, the outputs and the reports.  pc is how the call ended.
run_matching_pipeline ==
    /\ runs < MaxRuns
    /\ runs' = runs + 1
    /\ LET t1 == tier1_deterministic_match(owners, transactions, clock)
           residual == Tier1Residuals(t1, owners, transactions)
           t2 == tier2_fuzzy_match(residual.owners, residual.transactions,
                     clock, MinScore, MaxCandidatesPerOwner)
           pairs == export_review_candidates(t2.matches)
           ds == load_review_decisions(review_dir.decisions)
           merged == IF Len(ds) > 0
                     THEN merge_review_decisions(t2.matches, DecisionFrame(ds))
                     ELSE [raised |-> FALSE, df |-> t2.matches]
           all_matches == t1.matches \o merged.df.rows
       IN  IF t1.status = "schema_error"
           THEN \* ValueError of Tier 1, lines 31-36 of deterministic.py
                /\ pc' = "failed"
                /\ run' = [EmptyRun EXCEPT !.error = "schema_error"]
                /\ UNCHANGED <<review_dir, outputs>>
           ELSE IF t2.status = "schema_error"
           THEN \* ValueError of Tier 2, lines 155-160 of fuzzy.py
                /\ pc' = "failed"
                /\ run' = [EmptyRun EXCEPT !.error = "schema_error",
                                            !.tier1_matches = t1.matches,
                                            !.stages = <<"tier1">>]
                /\ UNCHANGED <<review_dir, outputs>>
           ELSE IF merged.raised
           THEN /\ pc' = "failed"
                /\ run' = [EmptyRun EXCEPT !.error = "merge_error",
                                            !.tier1_matches = t1.matches,
                                            !.tier2_matches = t2.matches,
                                            !.stages = <<"tier1", "tier2", "export">>]
                /\ UNCHANGED <<review_dir, outputs>>
           ELSE /\ pc' = IF QaReportRaises(all_matches) THEN "failed" ELSE "done"
                /\ run' = [stages |->
                               IF QaReportRaises(all_matches)
                               THEN <<"tier1", "tier2", "export", "merge", "outputs">>
                               ELSE <<"tier1", "tier2", "export", "merge", "outputs",
                                      "qa_report">>,
                           error |->
                               IF QaReportRaises(all_matches)
                               THEN "zero_division" ELSE "none",
                           tier1_matches |-> t1.matches,
                           tier2_matches |-> t2.matches,
                           candidates |-> t2.candidates,
                           unmatched_owners |-> t2.unmatched_owners,
                           unmatched_transactions |-> t2.unmatched_transactions,
                           review_pairs |-> pairs,
                           review_decisions |-> ds,
                           decision_files |-> review_dir.decisions,
                           all_matches |-> all_matches]
                /\ review_dir' = IF pairs = <<>> THEN review_dir
                                 ELSE [review_dir EXCEPT !.pairs = File(pairs)]
                /\ outputs' = write_pipeline_outputs(outputs, all_matches,
                                  t2.unmatched_owners, t2.unmatched_transactions)
    /\ UNCHANGED <<inputVars, clock, tier1Vars, tier2Vars, mergeVars, uiVars, parVars, normVars>>

-----------------------------------------------------------------------------
(* The review application (src/examples/ui/review_app.py) *)

\* load_review_pairs(file_path): the rows of the file, none if it is missing
load_review_pairs(file) == IF file.exists THEN file.rows ELSE <<>>

\* "Load Review Pairs": the path is the reviewer's input; the files of the
\* model that hold pairs are pairs.parquet and matches.parquet
LoadReviewPairs ==
    /\ \E file \in {review_dir.pairs, outputs.matches} :
          session' = [review_pairs |-> load_review_pairs(file),
                      current_index |-> 0,
                      decisions |-> <<>>]
    /\ UNCHANGED <<inputVars, clock, tier1Vars, tier2Vars, mergeVars, pipeVars, parVars, normVars>>

\* the main area is drawn only while current_index names a loaded pair
PairShown ==
    /\ Len(session.review_pairs) > 0
    /\ session.current_index < Len(session.review_pairs)

CurrentPair == session.review_pairs[session.current_index + 1]

Decide(status) ==
    /\ PairShown
    /\ Len(session.decisions) < MaxSessionDecisions
    /\ session' = [session EXCEPT
                      !.decisions = Append(@, Decision(CurrentPair.owner_id,
                                                       CurrentPair.txn_id, status)),
                      !.current_index = @ + 1]
    /\ UNCHANGED <<inputVars, clock, tier1Vars, tier2Vars, mergeVars, pipeVars, parVars, normVars>>

Approve == Decide("approved")

Reject == Decide("rejected")

Skip ==
    /\ PairShown
    /\ session' = [session EXCEPT !.current_index = @ + 1]
    /\ UNCHANGED <<inputVars, clock, tier1Vars, tier2Vars, mergeVars, pipeVars, parVars, normVars>>

\* the buttons First, Previous, Next, Last
Navigate ==
    /\ PairShown
    /\ \E i \in {0,
                 IF session.current_index > 0
                 THEN session.current_index - 1 ELSE session.current_index,
                 IF session.current_index < Len(session.review_pairs) - 1
                 THEN session.current_index + 1 ELSE session.current_index,
                 Len(session.review_pairs) - 1} :
          /\ i # session.current_index
          /\ session' = [session EXCEPT !.current_index = i]
    /\ UNCHANGED <<inputVars, clock, tier1Vars, tier2Vars, mergeVars, pipeVars, parVars, normVars>>

\* the decisions files after decisions_<now>.parquet is written
WriteDecisions(files, now, rows) ==
    IF \E i \in 1..Len(files) : files[i].ts = now
    THEN [i \in 1..Len(files) |->
             IF files[i].ts = now THEN [ts |-> now, rows |-> rows] ELSE files[i]]
    ELSE Append(files, [ts |-> now, rows |-> rows])

\* "Save Decisions": save_review_decisions(st.session_state.decisions)
SaveDecisions ==
    /\ Len(session.review_pairs) > 0
    /\ Len(session.decisions) > 0
    /\ review_dir' = [review_dir EXCEPT
                         !.decisions = WriteDecisions(@, clock, session.decisions)]
    /\ UNCHANGED <<inputVars, clock, tier1Vars, tier2Vars, mergeVars, pc, run, runs,
                   outputs, uiVars, parVars, normVars>>

-----------------------------------------------------------------------------
(* Specification of pipeline runs and review sessions on fixed inputs *)

PipeRow(k, b, a) ==
    [owner_id |-> 0, txn_id |-> 0, composite_key |-> k,
     project_clean |-> "dubai hills", building_clean |-> b,
     unit_no |-> "0101", area_sqm |-> a]

\* an owner that Tier 1 matches with the transaction of area 200, and one
\* whose recorded area (206) is more than 1% off every transaction, so that
\* only Tier 2 can pair it
PipeOwnerRows ==
    {PipeRow("dubai_hills_tower_a_0101", "tower a", a) : a \in {200, 206}}

\* transactions that Tier 1 matches (200), that Tier 2 scores Medium (203)
\* and that Tier 2 scores Low (210)
PipeTxnRows ==
    {PipeRow("dubai_hills_tower_a_0101", "tower a", a) : a \in {200, 203, 210}}

\* ids are unique: preprocess_owners drops duplicate owner_ids
Numbered(rows) ==
    [i \in 1..Len(rows) |-> [rows[i] EXCEPT !.owner_id = i, !.txn_id = i]]

\* owner tables of the pipeline: preprocess_owners keeps one row per owner
PipeOwnerTables ==
    {rows \in SeqsUpTo(PipeOwnerRows, MaxPipeOwners) :
        \A i, j \in 1..Len(rows) : rows[i] = rows[j] => i = j}

Init ==
    /\ \E rows \in PipeOwnerTables :
       \E cols \in {PipeCols, PipeCols \ {"composite_key"},
                    PipeCols \ {"project_clean"}} :
           owners = [cols |-> cols, rows |-> Numbered(rows)]
    /\ \E rows \in SeqsUpTo(PipeTxnRows, MaxTxns) :
           transactions = [cols |-> PipeCols, rows |-> Numbered(rows)]
    /\ clock = 0
    /\ t1runs = <<>>
    /\ t2runs = <<>>
    /\ cands0 = EmptyFrame
    /\ applied = <<>>
    /\ results = <<>>
    /\ PipelineIdle
    /\ NormalizerIdle
    /\ ParallelIdle

Next ==
    \/ Tick
    \/ run_matching_pipeline
    \/ LoadReviewPairs
    \/ Approve
    \/ Reject
    \/ Skip
    \/ Navigate
    \/ SaveDecisions

Spec == Init /\ [][Next]_vars

-----------------------------------------------------------------------------
(* Specification of one Tier 2 call on a pair of preprocessed sources *)

\* preprocess_transactions of the pipeline's package: a source without a
\* unit column gets unit_no = str(txn_id)
preprocess_transactions(tbl) ==
    IF "unit_no" \in tbl.cols THEN tbl
    ELSE [cols |-> tbl.cols \cup {"unit_no"},
          rows |-> [i \in 1..Len(tbl.rows) |->
                      [tbl.rows[i] EXCEPT !.unit_no = ToString(tbl.rows[i].txn_id)]]]

\* preprocess_transactions of src/matching/preprocess.py: unit_no = ""
legacy_preprocess_transactions(tbl) ==
    [cols |-> tbl.cols \cup {"unit_no"},
     rows |-> [i \in 1..Len(tbl.rows) |-> [tbl.rows[i] EXCEPT !.unit_no = ""]]]

Tier2InputRow(p, b, u, a) ==
    [owner_id |-> 0, txn_id |-> 0, project_clean |-> p, building_clean |-> b,
     unit_no |-> u, area_sqm |-> a]

\* owners of "tower a": units as preprocess_owners leaves them (str of the
\* source value, possibly empty), areas as pd.to_numeric leaves them
Tier2OwnerRows ==
    {Tier2InputRow("dubai hills", "tower a", u, 100000) : u \in {"0101", "1", ""}}
      \cup {Tier2InputRow("dubai hills", "tower a", "0101", a) : a \in {-100000, 0, NaN}}
      \cup {Tier2InputRow("emaar south", "tower a", "0101", 100000)}

\* transactions scoring 1.0, 0.90, 0.8999, 0.85 (tower a), 0.75, 0.7499
\* (towxx) against the owner of area 100000, one of area 0, one of another
\* project
Tier2TxnRows ==
    {Tier2InputRow("dubai hills", "tower a", "0101", a) :
        a \in {100000, 101000, 101001, 101500, 0}}
      \cup {Tier2InputRow("dubai hills", "towxx", "0101", a) : a \in {100000, 100001}}
      \cup {Tier2InputRow("emaar south", "tower a", "0101", 100000)}

\* ids in the reverse of the row order: a source need not be sorted by id
NumberedDesc(rows) ==
    [i \in 1..Len(rows) |->
        [rows[i] EXCEPT !.owner_id = Len(rows) - i + 1, !.txn_id = Len(rows) - i + 1]]

\* a source without a unit column
WithoutUnits(rows) == [i \in 1..Len(rows) |-> [rows[i] EXCEPT !.unit_no = NoText]]

InitTier2 ==
    /\ \E rows \in SeqsUpTo(Tier2OwnerRows, MaxOwners) :
           owners = [cols |-> T2Cols \cup {"owner_id"}, rows |-> Numbered(rows)]
    /\ \E rows \in SeqsUpTo(Tier2TxnRows, MaxTxns) :
       \E ids \in {Numbered(rows), NumberedDesc(rows)} :
          \/ transactions = [cols |-> T2Cols \cup {"txn_id"}, rows |-> ids]
          \/ transactions = [cols |-> (T2Cols \cup {"txn_id"}) \ {"unit_no"},
                             rows |-> WithoutUnits(ids)]
    /\ clock = 0
    /\ t1runs = <<>>
    /\ t2runs = <<>>
    /\ cands0 = EmptyFrame
    /\ applied = <<>>
    /\ results = <<>>
    /\ PipelineIdle
    /\ NormalizerIdle
    /\ ParallelIdle

\* the arguments of a call: the defaults, and every score kept with one
\* candidate per owner
Tier2Params == {<<MinScore, MaxCandidatesPerOwner>>, <<0, 1>>}

RunTier2 ==
    /\ t2runs = <<>>
    /\ \E prm \in Tier2Params :
       \E txns \in {preprocess_transactions(transactions),
                    legacy_preprocess_transactions(transactions)} :
          t2runs' = <<[min_score |-> prm[1],
                       max_candidates_per_owner |-> prm[2],
                       transactions |-> txns,
                       result |-> tier2_fuzzy_match(owners, txns, clock,
                                                    prm[1], prm[2])]>>
    /\ UNCHANGED <<inputVars, clock, tier1Vars, mergeVars, pipeVars, uiVars, parVars, normVars>>

NextTier2 == RunTier2

SpecTier2 == InitTier2 /\ [][NextTier2]_vars

-----------------------------------------------------------------------------
(* The parallel fuzzy matchers: fast_fuzzy_match                           *)
(* (src/src/data_processing/matching/fast_pipeline.py),                    *)
(* ultra_fast_fuzzy_match (src/matching/ultra_fast_pipeline.py) and        *)
(* m4_fuzzy_match (src/matching/m4_ultra_pipeline.py).  A batch worker is  *)
(* a process of a ProcessPoolExecutor; the caller collects the futures in  *)
(* the order as_completed yields them.  A candidate is kept as its pair    *)
(* of ids.                                                                 *)

MaxPoolOwners == 2
MaxWorkers == 2

\* M4_CORES = 14
M4_CORES == 14

\* an area_sqm that is not a number: `owner_area > 0` raises TypeError
BadArea == -888888

Matchers == {"fast", "ultra", "m4"}

\* owners_df.iloc[i:i+batch_size] for i in range(0, len(owners_df), batch_size)
RECURSIVE owner_batches(_, _)
owner_batches(rows, batch_size) ==
    IF rows = <<>> THEN <<>>
    ELSE IF Len(rows) <= batch_size THEN <<rows>>
    ELSE <<SubSeq(rows, 1, batch_size)>>
            \o owner_batches(SubSeq(rows, batch_size + 1, Len(rows)), batch_size)

\* the batch worker raises: a transaction of the owner's building is found
\* and the owner's area is compared with 0
BatchRaises(batch, txns) ==
    \E i \in 1..Len(batch) :
        /\ batch[i].area_sqm = BadArea
        /\ \E j \in 1..Len(txns) : txns[j].building_clean = batch[i].building_clean

\* fast_fuzzy_match_batch, ultra_fast_fuzzy_match_batch, m4_fuzzy_match_batch
\* on owners and transactions of one building with equal units: a pair is a
\* candidate when the areas are within 2% (every matcher then scores it 0.9
\* or more, and at most 0.7 otherwise)
fuzzy_match_batch(batch, txns) ==
    LET pairs == SelectSeq(IndexPairs(Len(batch), Len(txns)), LAMBDA p :
                    LET o == batch[p[1]]
                        t == txns[p[2]]
                    IN  /\ o.building_clean = t.building_clean
                        /\ o.unit_no = t.unit_no
                        /\ o.area_sqm > 0
                        /\ Abs(o.area_sqm - t.area_sqm) * 50 <= o.area_sqm)
    IN  [k \in 1..Len(pairs) |->
            [owner_id |-> batch[pairs[k][1]].owner_id,
             txn_id |-> txns[pairs[k][2]].txn_id]]

\* the call of a matcher up to the submission of its batches
StartMatch ==
    /\ pool.state = "idle"
    /\ \E m \in Matchers, w \in 1..MaxWorkers, batch_size \in 1..2 :
         LET max_workers == IF m = "m4" THEN M4_CORES ELSE w
         IN  IF Len(owners.rows) = 0 \/ Len(transactions.rows) = 0
             THEN pool' = [IdlePool EXCEPT !.state = "returned", !.matcher = m,
                                           !.max_workers = max_workers]
             ELSE LET bs == owner_batches(owners.rows, batch_size)
                  IN  pool' = [IdlePool EXCEPT
                         !.state = IF m = "m4" \/ max_workers > 1
                                   THEN "parallel" ELSE "sequential",
                         !.matcher = m,
                         !.max_workers = max_workers,
                         !.batches = bs,
                         !.status = [i \in 1..Len(bs) |-> "pending"]]
    /\ UNCHANGED <<inputVars, clock, tier1Vars, tier2Vars, mergeVars, pipeVars, uiVars, normVars>>

Running == {i \in 1..Len(pool.status) : pool.status[i] = "running"}
Pending == {i \in 1..Len(pool.status) : pool.status[i] = "pending"}

\* a free worker process takes the oldest batch of the queue
WorkerStart ==
    /\ pool.state = "parallel"
    /\ Pending # {}
    /\ Cardinality(Running) < pool.max_workers
    /\ LET i == CHOOSE k \in Pending : \A l \in Pending : k <= l
       IN  pool' = [pool EXCEPT !.status[i] = "running"]
    /\ UNCHANGED <<inputVars, clock, tier1Vars, tier2Vars, mergeVars, pipeVars, uiVars, normVars>>

\* a worker returns or raises: its future is done
WorkerFinish ==
    /\ pool.state = "parallel"
    /\ \E i \in Running :
         pool' = [pool EXCEPT !.status[i] = "done",
                              !.completed = Append(@, i)]
    /\ UNCHANGED <<inputVars, clock, tier1Vars, tier2Vars, mergeVars, pipeVars, uiVars, normVars>>

\* one round of `for future in as_completed(...)`: future.result() inside
\* try/except Exception
Collect ==
    /\ pool.state = "parallel"
    /\ pool.completed # <<>>
    /\ LET i == Head(pool.completed)
       IN  IF BatchRaises(pool.batches[i], transactions.rows)
           THEN pool' = [pool EXCEPT !.status[i] = "collected",
                                     !.completed = Tail(@),
                                     !.errors = @ \cup {i}]
           ELSE pool' = [pool EXCEPT !.status[i] = "collected",
                                     !.completed = Tail(@),
                                     !.all_matches = @ \o fuzzy_match_batch(
                                         pool.batches[i], transactions.rows)]
    /\ UNCHANGED <<inputVars, clock, tier1Vars, tier2Vars, mergeVars, pipeVars, uiVars, normVars>>

\* one round of the sequential loop taken when max_workers <= 1: the batch
\* function is called directly
SequentialBatch ==
    /\ pool.state = "sequential"
    /\ pool.next <= Len(pool.batches)
    /\ LET i == pool.next
       IN  IF BatchRaises(pool.batches[i], transactions.rows)
           THEN pool' = [pool EXCEPT !.state = "raised"]
           ELSE pool' = [pool EXCEPT !.status[i] = "collected",
                                     !.next = i + 1,
                                     !.all_matches = @ \o fuzzy_match_batch(
                                         pool.batches[i], transactions.rows)]
    /\ UNCHANGED <<inputVars, clock, tier1Vars, tier2Vars, mergeVars, pipeVars, uiVars, normVars>>

\* drop_duplicates(subset=['owner_id', 'txn_id'], keep='first')
RECURSIVE DropDuplicatePairs(_)
DropDuplicatePairs(ms) ==
    IF ms = <<>> THEN <<>>
    ELSE LET rest == DropDuplicatePairs(SubSeq(ms, 1, Len(ms) - 1))
             last == ms[Len(ms)]
         IN  IF \E k \in 1..Len(rest) : rest[k] = last THEN rest
             ELSE Append(rest, last)

\* every batch is collected: matches_df is built and returned
ReturnMatches ==
    /\ \/ pool.state = "parallel"
          /\ \A i \in 1..Len(pool.status) : pool.status[i] = "collected"
       \/ pool.state = "sequential" /\ pool.next > Len(pool.batches)
    /\ pool' = [pool EXCEPT !.state = "returned",
                            !.result = DropDuplicatePairs(pool.all_matches)]
    /\ UNCHANGED <<inputVars, clock, tier1Vars, tier2Vars, mergeVars, pipeVars, uiVars, normVars>>

ParOwnerRows ==
    {Tier2InputRow("dubai hills", "tower a", "0101", a) : a \in {100, BadArea}}

ParTxnRows ==
    {Tier2InputRow("dubai hills", "tower a", "0101", a) : a \in {100, 101}}

InitParallel ==
    /\ \E rows \in SeqsUpTo(ParOwnerRows, MaxPoolOwners) :
           owners = [cols |-> T2Cols \cup {"owner_id"}, rows |-> Numbered(rows)]
    /\ \E rows \in SeqsUpTo(ParTxnRows, 1) :
           transactions = [cols |-> T2Cols \cup {"txn_id"}, rows |-> Numbered(rows)]
    /\ clock = 0
    /\ t1runs = <<>>
    /\ t2runs = <<>>
    /\ cands0 = EmptyFrame
    /\ applied = <<>>
    /\ results = <<>>
    /\ PipelineIdle
    /\ NormalizerIdle
    /\ ParallelIdle

NextParallel ==
    \/ StartMatch
    \/ WorkerStart
    \/ WorkerFinish
    \/ Collect
    \/ SequentialBatch
    \/ ReturnMatches

SpecParallel == InitParallel /\ [][NextParallel]_vars

-----------------------------------------------------------------------------
(* The Normalizer: src/matching/preprocess.py (module "legacy") and        *)
(* src/src/data_processing/matching/preprocess.py (module "pipeline").     *)
(*                                                                         *)
(* A cell of a raw table is a string, a number or missing.  Numbers of the *)
(* Normalizer are integers in hundredths, the resolution of round(x, 2).   *)
(* A row is a function from the column names of its table to cells.        *)

Str(s) == [t |-> "str", s |-> s, n |-> 0]
Num(h) == [t |-> "num", s |-> "", n |-> h]
IntCell(k) == [t |-> "int", s |-> "", n |-> k]
NA == [t |-> "na", s |-> "", n |-> 0]

\* pd.isna(x)
IsNA(x) == x.t = "na"

CharAt(s, i) == SubSeq(s, i, i)

UpperCase == "ABCDEFGHIJKLMNOPQRSTUVWXYZ"
LowerCase == "abcdefghijklmnopqrstuvwxyz"
Digits == "0123456789"

IsDigit(c) == \E i \in 1..10 : CharAt(Digits, i) = c

\* a character of \w
IsWordChar(c) ==
    \/ IsDigit(c)
    \/ c = "_"
    \/ \E i \in 1..26 : c = CharAt(UpperCase, i) \/ c = CharAt(LowerCase, i)

LowerChar(c) ==
    IF \E i \in 1..26 : CharAt(UpperCase, i) = c
    THEN CharAt(LowerCase, CHOOSE i \in 1..26 : CharAt(UpperCase, i) = c)
    ELSE c

\* str.lower()
RECURSIVE Lower(_)
Lower(s) == IF s = "" THEN "" ELSE LowerChar(Head(s)) \o Lower(Tail(s))

RECURSIVE LStrip(_)
LStrip(s) == IF s # "" /\ Head(s) = " " THEN LStrip(Tail(s)) ELSE s

RECURSIVE RStrip(_)
RStrip(s) ==
    IF s # "" /\ CharAt(s, Len(s)) = " " THEN RStrip(SubSeq(s, 1, Len(s) - 1))
    ELSE s

\* str.strip()
Strip(s) == RStrip(LStrip(s))

\* str.replace(a, b) for a single character a
RECURSIVE ReplaceChar(_, _, _)
ReplaceChar(s, a, b) ==
    IF s = "" THEN ""
    ELSE (IF Head(s) = a THEN b ELSE Head(s)) \o ReplaceChar(Tail(s), a, b)

\* str(x): a string is itself, a missing value prints as "nan", a number
\* prints its digits
StrOf(x) ==
    IF x.t = "str" THEN x.s
    ELSE IF x.t = "na" THEN "nan"
    ELSE IF x.t = "int" THEN ToString(x.n)
    ELSE IF x.n % 100 = 0 THEN ToString(x.n \div 100) \o ".0"
    ELSE IF x.n % 10 = 0 THEN ToString(x.n \div 100) \o "." \o ToString((x.n % 100) \div 10)
    ELSE ToString(x.n \div 100) \o "." \o CharAt(Digits, ((x.n % 100) \div 10) + 1)
            \o ToString(x.n % 10)

\* the longest prefix of s made of digits
RECURSIVE DigitPrefix(_)
DigitPrefix(s) ==
    IF s # "" /\ IsDigit(Head(s)) THEN Head(s) \o DigitPrefix(Tail(s)) ELSE ""

\* re.search(r'(\d+)', text).group(1), or "" when there is no digit
RECURSIVE FirstDigits(_)
FirstDigits(s) ==
    IF s = "" THEN ""
    ELSE IF IsDigit(Head(s)) THEN DigitPrefix(s)
    ELSE FirstDigits(Tail(s))

\* str.zfill(width) of a string of digits
RECURSIVE ZFill(_, _)
ZFill(s, width) == IF Len(s) >= width THEN s ELSE ZFill("0" \o s, width)

\* the value of a string of digits
RECURSIVE DigitsValue(_)
DigitsValue(s) ==
    IF s = "" THEN 0
    ELSE 10 * DigitsValue(SubSeq(s, 1, Len(s) - 1))
            + ((CHOOSE i \in 1..10 : CharAt(Digits, i) = CharAt(s, Len(s))) - 1)

\* float(s) for a string: <<TRUE, hundredths>>, or <<FALSE, 0>> when float
\* raises ValueError; accepted are digits with an optional sign and an
\* optional fraction of one or two digits, surrounded by blanks
ParseUnsigned(body) ==
    LET whole == DigitPrefix(body)
        rest == SubSeq(body, Len(whole) + 1, Len(body))
        frac == IF rest # "" /\ Head(rest) = "." THEN Tail(rest) ELSE ""
    IN  IF whole = "" THEN <<FALSE, 0>>
        ELSE IF rest = "" THEN <<TRUE, 100 * DigitsValue(whole)>>
        ELSE IF Head(rest) # "." \/ frac = "" \/ DigitPrefix(frac) # frac \/ Len(frac) > 2
             THEN <<FALSE, 0>>
        ELSE <<TRUE, 100 * DigitsValue(whole)
                        + (IF Len(frac) = 1 THEN 10 ELSE 1) * DigitsValue(frac)>>

ParseFloat(s) ==
    LET body == Strip(s)
    IN  IF body # "" /\ Head(body) = "-"
        THEN LET p == ParseUnsigned(Tail(body)) IN <<p[1], 0 - p[2]>>
        ELSE ParseUnsigned(body)

\* normalize_string: "" for a missing value, else str(text) lowercased and
\* stripped (NFKC leaves the ASCII characters of the model as they are)
normalize_string(text) ==
    IF IsNA(text) THEN "" ELSE Strip(Lower(StrOf(text)))

\* what replace_synonyms puts for one word: the patterns are \bword\b with
\* re.IGNORECASE, first the building synonyms, then the Roman numerals
ReplaceWord(w) ==
    LET l == Lower(w)
    IN  IF l \in {"tower", "bldg", "building", "blk", "block"} THEN "tower"
        ELSE IF l = "i" THEN "1" ELSE IF l = "ii" THEN "2"
        ELSE IF l = "iii" THEN "3" ELSE IF l = "iv" THEN "4"
        ELSE IF l = "v" THEN "5" ELSE IF l = "vi" THEN "6"
        ELSE IF l = "vii" THEN "7" ELSE IF l = "viii" THEN "8"
        ELSE IF l = "ix" THEN "9" ELSE IF l = "x" THEN "10"
        ELSE w

\* the longest prefix of s made of word characters
RECURSIVE WordPrefix(_)
WordPrefix(s) ==
    IF s # "" /\ IsWordChar(Head(s)) THEN Head(s) \o WordPrefix(Tail(s)) ELSE ""

\* replace_synonyms: every maximal run of word characters is replaced
RECURSIVE replace_synonyms(_)
replace_synonyms(text) ==
    IF text = "" THEN ""
    ELSE IF IsWordChar(Head(text))
         THEN LET w == WordPrefix(text)
              IN  ReplaceWord(w) \o replace_synonyms(SubSeq(text, Len(w) + 1, Len(text)))
         ELSE Head(text) \o replace_synonyms(Tail(text))

\* extract_unit_number: "" for a missing or empty value, the first run of
\* digits padded to 4, or the stripped text when it has no digit
extract_unit_number(text) ==
    IF IsNA(text) \/ (text.t = "str" /\ text.s = "") THEN ""
    ELSE LET s == Strip(StrOf(text))
             number == FirstDigits(s)
         IN  IF number # "" THEN ZFill(number, 4) ELSE s

\* round(area * 0.092903, 2) for an area in hundredths
SqftToSqm(area) ==
    LET q == area \div 1000
        r == area % 1000
        a == (q * 92903) \div 1000
        b == (q * 92903) % 1000
    IN  (a - (a % 2)) + RoundHalfEven(1000 * b + r * 92903 + (a % 2) * 1000000, 1000000)

\* normalize_area: 0.0 for a missing value or one float() rejects; a value
\* below 1000 is converted from square feet
normalize_area(area_value) ==
    LET parsed == IF area_value.t = "num" THEN <<TRUE, area_value.n>>
                  ELSE IF area_value.t = "int" THEN <<TRUE, 100 * area_value.n>>
                  ELSE ParseFloat(area_value.s)
        area == parsed[2]
    IN  IF IsNA(area_value) \/ ~parsed[1] THEN 0
        ELSE IF area < 100000 THEN SqftToSqm(area)
        ELSE area

\* pd.to_numeric(x, errors='coerce'): NaN for what is not a number
to_numeric(x) ==
    IF x.t = "num" THEN x.n
    ELSE IF x.t = "int" THEN 100 * x.n
    ELSE IF x.t = "str" /\ ParseFloat(x.s)[1] THEN ParseFloat(x.s)[2]
    ELSE NaN

\* row.get(col, ''): the cell of a column, '' when the table has no such
\* column
RowGet(row, col) == IF col \in DOMAIN row THEN StrOf(row[col]) ELSE ""

\* generate_composite_key
generate_composite_key(row, property_type) ==
    IF property_type = "apartment"
    THEN ReplaceChar(RowGet(row, "project_clean") \o "_" \o RowGet(row, "building_clean")
                        \o "_" \o RowGet(row, "unit_no"), " ", "_")
    ELSE ReplaceChar(RowGet(row, "project_clean") \o "_" \o RowGet(row, "plot_no"),
                     " ", "_")

\* df.rename(columns={old: new})
RenameColumn(df, old, new) ==
    IF old \notin df.cols THEN df
    ELSE LET cols == (df.cols \ {old}) \cup {new}
         IN  [cols |-> cols,
              rows |-> [i \in 1..Len(df.rows) |->
                          [c \in cols |-> IF c = new THEN df.rows[i][old]
                                          ELSE df.rows[i][c]]]]

\* df[col] = df.apply(F, axis=1)
AssignColumn(df, col, F(_)) ==
    LET cols == df.cols \cup {col}
    IN  [cols |-> cols,
         rows |-> [i \in 1..Len(df.rows) |->
                     [c \in cols |-> IF c = col THEN F(df.rows[i])
                                     ELSE df.rows[i][c]]]]

\* for col in string_columns: df[f'{col}_clean'] = normalize, replace
RECURSIVE CleanStringColumns(_, _)
CleanStringColumns(df, string_columns) ==
    IF string_columns = <<>> THEN df
    ELSE LET col == Head(string_columns)
             rest == CleanStringColumns(df, Tail(string_columns))
         IN  IF col \notin df.cols THEN rest
             ELSE AssignColumn(rest, col \o "_clean",
                     LAMBDA r : Str(replace_synonyms(normalize_string(r[col]))))

\* the steps the two legacy functions share after the renaming
LegacyKeyed(df) ==
    LET sized == IF "area" \in df.cols
                 THEN AssignColumn(df, "area_sqm", LAMBDA r : Num(normalize_area(r["area"])))
                 ELSE df
    IN  AssignColumn(sized, "composite_key",
                     LAMBDA r : Str(generate_composite_key(r, "apartment")))

\* preprocess_owners of src/matching/preprocess.py
legacy_preprocess_owners(owners_df) ==
    LET renamed == RenameColumn(RenameColumn(RenameColumn(RenameColumn(RenameColumn(
                      owners_df, "Project", "project"), "BuildingNameEn", "building"),
                      "UnitNumber", "unit_number"), " Size ", "area"), "NameEn", "owner_name")
        cleaned == CleanStringColumns(renamed,
                      <<"project", "building", "unit_number", "owner_name">>)
        united == IF "unit_number" \in cleaned.cols
                  THEN AssignColumn(cleaned, "unit_no",
                          LAMBDA r : Str(extract_unit_number(r["unit_number"])))
                  ELSE cleaned
    IN  LegacyKeyed(united)

\* preprocess_transactions of src/matching/preprocess.py, on a table of raw
\* rows
legacy_preprocess_raw_transactions(transactions_df) ==
    LET renamed == RenameColumn(RenameColumn(RenameColumn(
                      transactions_df, "project_name_en", "project"),
                      "building_name_en", "building"), "procedure_area", "area")
        cleaned == CleanStringColumns(renamed,
                      <<"project", "building", "unit_number", "buyer_name">>)
    IN  LegacyKeyed(AssignColumn(cleaned, "unit_no", LAMBDA r : Str("")))

\* df.drop_duplicates(subset=[col]): the first row of every value is kept
DropDuplicates(df, col) ==
    [cols |-> df.cols,
     rows |-> LET keep == {i \in 1..Len(df.rows) :
                             \A j \in 1..(i - 1) : df.rows[j][col] # df.rows[i][col]}
                  RECURSIVE Pick(_)
                  Pick(i) == IF i > Len(df.rows) THEN <<>>
                             ELSE (IF i \in keep THEN <<df.rows[i]>> ELSE <<>>) \o Pick(i + 1)
              IN  Pick(1)]

\* df[df['party_type'].str.lower() == 'buyer']: a missing value is not a buyer
OnlyBuyers(df) ==
    [cols |-> df.cols,
     rows |-> SelectSeq(df.rows, LAMBDA r :
                 ~IsNA(r["party_type"]) /\ Lower(StrOf(r["party_type"])) = "buyer")]

\* preprocess_owners of src/src/data_processing/matching/preprocess.py:
\* status "KeyError" when a column it indexes is absent
preprocess_owners(df0) ==
    LET df == RenameColumn(RenameColumn(RenameColumn(RenameColumn(RenameColumn(
                  df0, "BuildingNameEn", "building_clean"), "UnitNumber", "unit_no"),
                  " Size ", "area_sqm"), "NameEn", "owner_name"),
                  "ProcedurePartyTypeNameEn", "party_type")
        needed == {"party_type", "area_sqm", "unit_no", "building_clean"}
                      \cup (IF "owner_id" \in df.cols THEN {} ELSE {"owner_name"})
    IN  IF ~(needed \subseteq df.cols) THEN [status |-> "KeyError", df |-> EmptyFrame]
        ELSE
          LET buyers == OnlyBuyers(df)
              ided == IF "owner_id" \in buyers.cols THEN buyers
                      ELSE AssignColumn(buyers, "owner_id", LAMBDA r :
                              Str(Strip(Lower(StrOf(r["building_clean"]))) \o "_"
                                    \o Strip(StrOf(r["unit_no"])) \o "_"
                                    \o Strip(Lower(StrOf(r["owner_name"])))))
              sized == AssignColumn(ided, "area_sqm",
                          LAMBDA r : Num(to_numeric(r["area_sqm"])))
              united == AssignColumn(sized, "unit_no",
                          LAMBDA r : Str(Strip(StrOf(r["unit_no"]))))
              built == AssignColumn(united, "building_clean",
                          LAMBDA r : Str(Strip(Lower(StrOf(r["building_clean"])))))
          IN  [status |-> "ok", df |-> DropDuplicates(built, "owner_id")]

\* preprocess_transactions of src/src/data_processing/matching/preprocess.py,
\* on a table of raw rows
preprocess_raw_transactions(df0) ==
    LET df == RenameColumn(RenameColumn(RenameColumn(RenameColumn(
                  df0, "transaction_id", "txn_id"), "building_name_en", "building_clean"),
                  "procedure_area", "area_sqm"), "project_name_en", "project")
        needed == {"area_sqm", "building_clean"}
                      \cup (IF "unit_no" \in df.cols THEN {} ELSE {"txn_id"})
    IN  IF ~(needed \subseteq df.cols) THEN [status |-> "KeyError", df |-> EmptyFrame]
        ELSE
          LET sized == AssignColumn(df, "area_sqm",
                          LAMBDA r : Num(to_numeric(r["area_sqm"])))
              built == AssignColumn(sized, "building_clean",
                          LAMBDA r : Str(Strip(Lower(StrOf(r["building_clean"])))))
              united == IF "unit_no" \in built.cols THEN built
                        ELSE AssignColumn(built, "unit_no",
                                LAMBDA r : Str(Strip(StrOf(r["txn_id"]))))
          IN  [status |-> "ok", df |-> united]

-----------------------------------------------------------------------------
(* Specification of the Normalizer on raw tables, followed by Tier 1 *)

MaxRawOwners == 2
MaxRawTxns == 1

RawOwnerCols ==
    {"Project", "BuildingNameEn", "UnitNumber", " Size ", "NameEn",
     "ProcedurePartyTypeNameEn"}

RawTxnCols ==
    {"transaction_id", "project_name_en", "building_name_en", "procedure_area",
     "unit_number"}

RawOwner(project, building, unit, size, party) ==
    [c \in RawOwnerCols |->
        CASE c = "Project" -> project
          [] c = "BuildingNameEn" -> building
          [] c = "UnitNumber" -> unit
          [] c = " Size " -> size
          [] c = "NameEn" -> Str("John Smith")
          [] c = "ProcedurePartyTypeNameEn" -> party]

RawTxn(project, building, unit, area) ==
    [c \in RawTxnCols |->
        CASE c = "transaction_id" -> IntCell(0)
          [] c = "project_name_en" -> project
          [] c = "building_name_en" -> building
          [] c = "procedure_area" -> area
          [] c = "unit_number" -> unit]

\* the owner of the sample data, and records that differ from it in one
\* field
RawOwnerRows ==
    {RawOwner(Str("Dubai Hills"), Str("Tower A"), u, Num(12050), Str("Buyer")) :
        u \in {Str("101"), Str("Apt 101"), Str("12345"), Str("PH"), Str(""), NA}}
      \cup {RawOwner(Str("Dubai Hills"), Str("Tower A"), Str("101"), a, Str("Buyer")) :
        a \in {Num(10050), Str("150.25"), IntCell(1000), IntCell(5000), Num(-500),
               Str("n/a"), Str(""), NA}}
      \cup {RawOwner(Str("Dubai Hills"), Str("Tower A"), Str("101"), Num(12050), p) :
        p \in {Str("Seller"), NA}}
      \cup {RawOwner(Str("Dubai Hills"), b, Str("101"), Num(12050), Str("Buyer")) :
        b \in {Str("BLDG II"), NA}}
      \cup {RawOwner(Str("Dubai"), Str("Hills Tower A"), Str(""), Num(12050), Str("Buyer"))}

RawTxnRows ==
    {RawTxn(Str("Dubai Hills"), Str("Tower A"), Str("101"), a) :
        a \in {Num(12000), Num(12050), Num(13000), NA}}
      \cup {RawTxn(Str("Dubai Hills"), b, Str("101"), Num(12000)) :
        b \in {Str("Tower B"), NA}}

\* the columns a source file has: all of them, or the documented minimum
\* (owners without project; transactions without unit number), or an owner
\* file without the party type
RawOwnerColSets ==
    {RawOwnerCols, RawOwnerCols \ {"Project"},
     RawOwnerCols \ {"ProcedurePartyTypeNameEn"}}

RawTxnColSets == {RawTxnCols, RawTxnCols \ {"unit_number"}}

\* the table of a source file: its columns, and ids in row order
RawFrame(rows, cols, idcol) ==
    [cols |-> cols,
     rows |-> [i \in 1..Len(rows) |->
                 [c \in cols |-> IF c = idcol THEN IntCell(i) ELSE rows[i][c]]]]

\* the table as the matchers read it: every field the matchers may read,
\* with a placeholder in the columns the table does not have
MatcherText(r, col) == IF col \in DOMAIN r /\ r[col].t = "str" THEN r[col].s ELSE NoText

MatcherFrame(df) ==
    [cols |-> df.cols,
     rows |-> [i \in 1..Len(df.rows) |->
        LET r == df.rows[i]
        IN  [owner_id |-> IF "owner_id" \in df.cols THEN r["owner_id"].s ELSE "",
             txn_id |-> IF "txn_id" \in df.cols THEN r["txn_id"].n ELSE 0,
             composite_key |-> MatcherText(r, "composite_key"),
             project_clean |-> MatcherText(r, "project_clean"),
             building_clean |-> MatcherText(r, "building_clean"),
             unit_no |-> MatcherText(r, "unit_no"),
             area_sqm |-> IF "area_sqm" \in df.cols THEN r["area_sqm"].n ELSE NaN]]]

\* the sample owner and the sample transaction
SampleOwner ==
    RawOwner(Str("Dubai Hills"), Str("Tower A"), Str("101"), Num(12050), Str("Buyer"))

SampleTxn == RawTxn(Str("Dubai Hills"), Str("Tower A"), Str("101"), Num(12000))

\* source files: copies of the sample record, then at most one other record
RawSources(S, sample, n) ==
    {rows \in SeqsUpTo(S, n) : \A i \in 1..(Len(rows) - 1) : rows[i] = sample}

InitNormalize ==
    /\ \E rows \in RawSources(RawOwnerRows, SampleOwner, MaxRawOwners),
          ocols \in RawOwnerColSets :
       \E trows \in RawSources(RawTxnRows, SampleTxn, MaxRawTxns),
          tcols \in RawTxnColSets :
          raw = [owners |-> RawFrame(rows, ocols, "none"),
                 transactions |-> RawFrame(trows, tcols, "transaction_id")]
    /\ \E m \in {"legacy", "pipeline"} : norm = [IdleNorm EXCEPT !.module = m]
    /\ owners = EmptyFrame
    /\ transactions = EmptyFrame
    /\ clock = 0
    /\ t1runs = <<>>
    /\ t2runs = <<>>
    /\ cands0 = EmptyFrame
    /\ applied = <<>>
    /\ results = <<>>
    /\ PipelineIdle
    /\ ParallelIdle

\* the record counts a preprocess function writes to the log: the legacy
\* functions and the pipeline's preprocess_transactions log the number of
\* records they got and the number they return, the pipeline's
\* preprocess_owners logs nothing
LoggedCounts(module, role, df_in, res) ==
    IF module = "pipeline" /\ role = "owner" THEN <<>>
    ELSE IF res.status # "ok"
         THEN <<[role |-> role, msg |-> "Preprocessing", n |-> Len(df_in.rows)]>>
    ELSE <<[role |-> role, msg |-> "Preprocessing", n |-> Len(df_in.rows)],
           [role |-> role, msg |-> "Generated", n |-> Len(res.df.rows)]>>

\* owners_clean = preprocess_owners(owners_df)
PreprocessOwners ==
    /\ norm.error = "none"
    /\ ~norm.owners_done
    /\ LET res == IF norm.module = "legacy"
                  THEN [status |-> "ok", df |-> legacy_preprocess_owners(raw.owners)]
                  ELSE preprocess_owners(raw.owners)
       IN  /\ owners' = MatcherFrame(res.df)
           /\ norm' = [norm EXCEPT !.owners_done = TRUE,
                                   !.error = IF res.status = "ok" THEN "none" ELSE res.status,
                                   !.log = @ \o LoggedCounts(norm.module, "owner",
                                                                raw.owners, res)]
    /\ UNCHANGED <<transactions, raw, clock, tier1Vars, tier2Vars, mergeVars, pipeVars, uiVars, parVars>>

\* transactions_clean = preprocess_transactions(transactions_df)
PreprocessTransactions ==
    /\ norm.error = "none"
    /\ norm.owners_done
    /\ ~norm.transactions_done
    /\ LET res == IF norm.module = "legacy"
                  THEN [status |-> "ok",
                        df |-> legacy_preprocess_raw_transactions(raw.transactions)]
                  ELSE preprocess_raw_transactions(raw.transactions)
       IN  /\ transactions' = MatcherFrame(res.df)
           /\ norm' = [norm EXCEPT !.transactions_done = TRUE,
                                   !.error = IF res.status = "ok" THEN "none" ELSE res.status,
                                   !.log = @ \o LoggedCounts(norm.module, "transaction",
                                                                raw.transactions, res)]
    /\ UNCHANGED <<owners, raw, clock, tier1Vars, tier2Vars, mergeVars, pipeVars, uiVars, parVars>>

\* tier1_deterministic_match(owners_clean, transactions_clean)
MatchNormalized ==
    /\ norm.error = "none"
    /\ norm.transactions_done
    /\ t1runs = <<>>
    /\ t1runs' = <<tier1_deterministic_match(owners, transactions, clock)>>
    /\ UNCHANGED <<inputVars, clock, tier2Vars, mergeVars, pipeVars, uiVars, parVars, normVars>>

NextNormalize == PreprocessOwners \/ PreprocessTransactions \/ MatchNormalized

SpecNormalize == InitNormalize /\ [][NextNormalize]_vars

-----------------------------------------------------------------------------
(* Properties of merge_review_decisions *)

SamePair(a, b) == a.owner_id = b.owner_id /\ a.txn_id = b.txn_id

\* ds holds a decision with status st on candidate c
HasDecision(ds, c, st) ==
    \E i \in 1..Len(ds) : SamePair(ds[i], c) /\ ds[i].review_status = st

Decided(ds, c) == \E i \in 1..Len(ds) : SamePair(ds[i], c)

\* what a claim compares of a candidate: pair, score, bucket, review status
Core(r) ==
    [owner_id |-> r.owner_id, txn_id |-> r.txn_id,
     match_confidence |-> r.match_confidence,
     confidence_bucket |-> r.confidence_bucket,
     review_status |-> r.review_status]

CoreRows(rs) == [i \in 1..Len(rs) |-> Core(rs[i])]

RowsOfPair(rs, c) == {i \in 1..Len(rs) : SamePair(rs[i], c)}

Merged(k) == k \in 1..Len(results) /\ ~results[k].raised

\* C2: merge_review_decisions is idempotent: merging a decision set into the
\* result of merging the same set succeeds and yields the same candidates
\* (pairs, scores, buckets, review statuses) as merging it once.
C2_MergeIdempotent ==
    (Len(applied) = 2 /\ applied[2] = applied[1])
        => /\ ~results[2].raised
           /\ CoreRows(results[2].df.rows) = CoreRows(results[1].df.rows)

\* C3: for D1 a subset of D2, merging D2 into the result of merging D1
\* yields the same candidates as merging D2 into the original frame.
C3_MergeSupersetIsUnion ==
    Len(applied) = 2
        => /\ ~results[2].raised
           /\ CoreRows(results[2].df.rows)
                = CoreRows(merge_review_decisions(cands0, applied[2]).df.rows)

\* C5: after a merge, every candidate whose pair has an approved decision is
\* in the output, and each of its rows has bucket High, confidence 0.95 and
\* review_status approved, whatever its score and bucket were.
C5_ApprovedIsHigh ==
    \A k \in 1..Len(results) : Merged(k) =>
        \A i \in 1..Len(MergeInput(k).rows) :
            LET c == MergeInput(k).rows[i]
                out == results[k].df.rows
            IN  HasDecision(applied[k].rows, c, "approved") =>
                  /\ RowsOfPair(out, c) # {}
                  /\ \A j \in RowsOfPair(out, c) :
                        /\ out[j].confidence_bucket = "High"
                        /\ out[j].match_confidence = 9500
                        /\ out[j].review_status = "approved"

\* a Medium candidate scored 0.85 was approved and is in the output
C5_Witness ==
    /\ Merged(1)
    /\ \E i \in 1..Len(cands0.rows) :
          /\ cands0.rows[i].confidence_bucket = "Medium"
          /\ cands0.rows[i].match_confidence = 8500
          /\ HasDecision(applied[1].rows, cands0.rows[i], "approved")
          /\ RowsOfPair(results[1].df.rows, cands0.rows[i]) # {}

\* C6: after a merge, no candidate whose pair has a rejected decision
\* remains in the output.
C6_RejectedRemoved ==
    \A k \in 1..Len(results) : Merged(k) =>
        \A j \in 1..Len(results[k].df.rows) :
            ~HasDecision(applied[k].rows, results[k].df.rows[j], "rejected")

-----------------------------------------------------------------------------
(* Properties of tier1_deterministic_match *)

\* the input row a match refers to
OwnerById(id) ==
    CHOOSE o \in Range(WithOwnerIds(owners).rows) : o.owner_id = id

TxnById(id) ==
    CHOOSE t \in Range(WithTxnIds(transactions).rows) : t.txn_id = id

\* C8: in the Tier 1 match output no owner_id appears twice.
C8_Tier1OwnerOnce ==
    \A k \in 1..Len(t1runs) :
        LET ms == t1runs[k].matches
        IN  \A i, j \in 1..Len(ms) :
                ms[i].owner_id = ms[j].owner_id => i = j

\* C9: every Tier 1 match has an owner area > 0 and an area difference of
\* at most area_tolerance_pct of the owner area.
C9_Tier1AreaWithinTolerance ==
    \A k \in 1..Len(t1runs) :
        LET ms == t1runs[k].matches
        IN  \A i \in 1..Len(ms) :
                LET ao == OwnerById(ms[i].owner_id).area_sqm
                    at == TxnById(ms[i].txn_id).area_sqm
                IN  /\ ~IsNaN(ao) /\ ~IsNaN(at)
                    /\ ao > 0
                    /\ Abs(ao - at) * TolDen <= TolNum * ao

\* C10: two calls of tier1_deterministic_match on the same normalized inputs
\* return identical match output: the same rows in the same order with the
\* same value in every field.
C10_Tier1Reproducible ==
    \A j, k \in 1..Len(t1runs) : t1runs[j].matches = t1runs[k].matches

-----------------------------------------------------------------------------
(* Properties of run_matching_pipeline *)

Accepted(r) == r.confidence_bucket # "Reject" /\ r.review_status # "rejected"

\* C1: in the final match set of a pipeline run (Tier 1 matches followed by
\* the reconciled Tier 2 matches) every owner_id has at most one accepted
\* match.
C1_OneAcceptedMatchPerOwner ==
    pc = "done" =>
        \A i, j \in 1..Len(run.all_matches) :
            ( /\ run.all_matches[i].owner_id = run.all_matches[j].owner_id
              /\ Accepted(run.all_matches[i])
              /\ Accepted(run.all_matches[j]) ) => i = j

\* C4: a run applies every decision saved in the review directory that
\* refers to a Tier 2 candidate of the run and is not contradicted by another
\* saved decision, exactly once, whichever decisions file holds it: an
\* approved pair is in the final set once, as approved, and a rejected pair
\* is not in it.
C4_SavedDecisionsApplied ==
    pc = "done" =>
        LET saved == AllDecisionRows(run.decision_files)
            out == run.all_matches
        IN  \A d \in 1..Len(saved) :
                ( /\ RowsOfPair(run.tier2_matches.rows, saved[d]) # {}
                  /\ \A e \in 1..Len(saved) :
                        SamePair(saved[e], saved[d])
                            => saved[e].review_status = saved[d].review_status )
                => IF saved[d].review_status = "approved"
                   THEN /\ Cardinality(RowsOfPair(out, saved[d])) = 1
                        /\ \A j \in RowsOfPair(out, saved[d]) :
                              out[j].review_status = "approved"
                   ELSE RowsOfPair(out, saved[d]) = {}

-----------------------------------------------------------------------------
(* Properties of the unmatched sets of tier1_deterministic_match *)

IdsOf(rows, col) == {rows[i][col] : i \in 1..Len(rows)}

\* C11: after a Tier 1 call every input owner_id is in exactly one of the
\* matched owner ids and the ids of unmatched_owners, and every input txn_id
\* is in exactly one of the matched transaction ids and the ids of
\* unmatched_transactions; both sets hold input ids only.
C11_Tier1UnmatchedIsComplement ==
    \A k \in 1..Len(t1runs) :
        LET r == t1runs[k]
            oids == IdsOf(WithOwnerIds(owners).rows, "owner_id")
            tids == IdsOf(WithTxnIds(transactions).rows, "txn_id")
            mo == IdsOf(r.matches, "owner_id")
            mt == IdsOf(r.matches, "txn_id")
            uo == IdsOf(r.unmatched_owners, "owner_id")
            ut == IdsOf(r.unmatched_transactions, "txn_id")
        IN  r.status = "ok" =>
              /\ mo \cup uo = oids /\ mo \cap uo = {}
              /\ mt \cup ut = tids /\ mt \cap ut = {}

\* a call matched one transaction and left another one, which shares the key
\* of the owner but fails the area filter, unmatched
C11_Witness ==
    /\ Len(t1runs) > 0
    /\ t1runs[1].status = "ok"
    /\ Len(t1runs[1].matches) = 1
    /\ Len(t1runs[1].unmatched_transactions) = 1
    /\ \A i \in 1..Len(transactions.rows) :
          transactions.rows[i].composite_key = owners.rows[1].composite_key

\* the columns some matching stage requires of both sources
RequiredCols == T1Cols \cup T2Cols

SchemaValid == RequiredCols \subseteq owners.cols /\ RequiredCols \subseteq transactions.cols

\* C12: a run on sources that lack a required column ends in a schema error,
\* and a run that ends in a schema error has performed no Tier 1 and no
\* Tier 2 matching.
C12_SchemaErrorBeforeMatching ==
    runs > 0 =>
        /\ ~SchemaValid => run.error = "schema_error"
        /\ run.error = "schema_error" => run.stages = <<>>

\* C17: after a pipeline run every Low-bucket candidate that Tier 2 scored is
\* in the review-candidate export with review_status pending.
C17_LowCandidatesExported ==
    (runs > 0 /\ run.error = "none") =>
        \A i \in 1..Len(run.candidates) :
            run.candidates[i].confidence_bucket = "Low" =>
                \E j \in 1..Len(run.review_pairs) :
                    /\ SamePair(run.review_pairs[j], run.candidates[i])
                    /\ run.review_pairs[j].review_status = "pending"

\* C20: every call of run_matching_pipeline on sources that pass schema
\* validation has completed with the QA report emitted.
C20_RunCompletesWithQaReport ==
    (runs > 0 /\ SchemaValid) =>
        /\ pc = "done"
        /\ run.error = "none"
        /\ \E i \in 1..Len(run.stages) : run.stages[i] = "qa_report"

-----------------------------------------------------------------------------
(* Properties of tier2_fuzzy_match *)

\* the candidates the call kept, before the accepted ones are selected
T2Candidates == t2runs[1].result.candidates

T2Owner(c) == CHOOSE o \in Range(owners.rows) : o.owner_id = c.owner_id

T2Txn(c) ==
    CHOOSE t \in Range(t2runs[1].transactions.rows) : t.txn_id = c.txn_id

\* C13: the bucket of every Tier 2 candidate follows the thresholds with
\* inclusive lower bounds: High from 0.90, Medium from 0.85 to below 0.90,
\* Low from 0.75 to below 0.85, Reject below 0.75.
C13_BucketThresholds ==
    t2runs # <<>> =>
        \A i \in 1..Len(T2Candidates) :
            LET c == T2Candidates[i]
                sc == c.match_confidence
            IN  /\ c.confidence_bucket = "High" <=> sc >= 9000
                /\ c.confidence_bucket = "Medium" <=> (sc >= 8500 /\ sc < 9000)
                /\ c.confidence_bucket = "Low" <=> (sc >= 7500 /\ sc < 8500)
                /\ c.confidence_bucket = "Reject" <=> sc < 7500

\* one candidate scored exactly 0.90 and is High, another scored 0.8999 and
\* is Medium
C13_Witness ==
    /\ t2runs # <<>>
    /\ \E i, j \in 1..Len(T2Candidates) :
          /\ T2Candidates[i].match_confidence = 9000
          /\ T2Candidates[i].confidence_bucket = "High"
          /\ T2Candidates[j].match_confidence = 8999
          /\ T2Candidates[j].confidence_bucket = "Medium"

\* C14: for every pair Tier 2 scored, the area score and the overall score
\* lie in [0, 1], and the area score is 0 when either area is unknown or
\* zero.
C14_ScoresInUnitInterval ==
    t2runs # <<>> =>
        \A i \in 1..Len(T2Candidates) :
            LET c == T2Candidates[i]
                ao == T2Owner(c).area_sqm
                at == T2Txn(c).area_sqm
            IN  /\ c.area_score[1] >= 0 /\ c.area_score[1] <= c.area_score[2]
                /\ c.match_confidence >= 0 /\ c.match_confidence <= 10000
                /\ (IsNaN(ao) \/ IsNaN(at) \/ ao = 0 \/ at = 0)
                      => c.area_score[1] = 0

\* a outranks b: higher score, or the same score and the lower txn_id
Outranks(a, b) ==
    \/ a.match_confidence > b.match_confidence
    \/ a.match_confidence = b.match_confidence /\ a.txn_id < b.txn_id

\* every pair of the owner's block that scores at least min_score
ScoredAbove(o) ==
    LET ts == t2runs[1].transactions.rows
    IN  {Tier2Row(o, ts[j], clock) : j \in {k \in 1..Len(ts) :
            /\ ts[k].project_clean = o.project_clean
            /\ Tier2Row(o, ts[k], clock).match_confidence >= t2runs[1].min_score}}

\* C15: for every owner at most max_candidates_per_owner candidates are
\* kept, and no pair that was left out outranks a kept one under the order
\* score descending, then txn_id ascending.
C15_TopCandidatesPerOwner ==
    t2runs # <<>> =>
        \A o \in Range(owners.rows) :
            LET idx == {i \in 1..Len(T2Candidates) :
                            T2Candidates[i].owner_id = o.owner_id}
                kept == {T2Candidates[i] : i \in idx}
            IN  /\ Cardinality(idx) <= t2runs[1].max_candidates_per_owner
                /\ \A s \in ScoredAbove(o) \ kept :
                   \A k \in kept : ~Outranks(s, k)

\* C16: every match of the accepted set Tier 2 returns is High or Medium,
\* whatever min_score was.
C16_AcceptedIsHighOrMedium ==
    t2runs # <<>> =>
        \A i \in 1..Len(t2runs[1].result.matches.rows) :
            t2runs[1].result.matches.rows[i].confidence_bucket \in {"High", "Medium"}

\* a call kept a Medium and a Low candidate, and returned an accepted set
\* that holds the first and not the second
C16_Witness ==
    /\ t2runs # <<>>
    /\ \E i, j \in 1..Len(T2Candidates) :
          /\ T2Candidates[i].confidence_bucket = "Medium"
          /\ T2Candidates[j].confidence_bucket = "Low"
          /\ RowsOfPair(t2runs[1].result.matches.rows, T2Candidates[i]) # {}
          /\ RowsOfPair(t2runs[1].result.matches.rows, T2Candidates[j]) = {}

\* C18: the owner and the transaction of every Tier 2 candidate have the
\* same blocking key project_clean.
C18_CandidatesShareProject ==
    t2runs # <<>> =>
        \A i \in 1..Len(T2Candidates) :
            T2Owner(T2Candidates[i]).project_clean
                = T2Txn(T2Candidates[i]).project_clean

\* an owner and a transaction that agree in building, unit and area but not
\* in project went through a call, and no candidate pairs them
C18_Witness ==
    /\ t2runs # <<>>
    /\ \E o \in Range(owners.rows) :
       \E t \in Range(t2runs[1].transactions.rows) :
          /\ o.project_clean # t.project_clean
          /\ o.building_clean = t.building_clean
          /\ o.unit_no = t.unit_no
          /\ o.area_sqm = t.area_sqm
          /\ \A i \in 1..Len(T2Candidates) :
                ~(T2Candidates[i].owner_id = o.owner_id
                    /\ T2Candidates[i].txn_id = t.txn_id)
    /\ T2Candidates # <<>>

\* C19: when the transaction source has no unit column, no candidate has
\* unit_match = 1.
C19_PlaceholderUnitNeverMatches ==
    (t2runs # <<>> /\ "unit_no" \notin transactions.cols) =>
        \A i \in 1..Len(T2Candidates) : T2Candidates[i].unit_match = 0

-----------------------------------------------------------------------------
(* Properties of the parallel fuzzy matchers *)

\* the batches whose worker raises
FailedBatches ==
    {i \in 1..Len(pool.batches) : BatchRaises(pool.batches[i], transactions.rows)}

\* the candidates of the batches whose worker returns
SiblingCandidates ==
    UNION {Range(fuzzy_match_batch(pool.batches[i], transactions.rows)) :
            i \in (1..Len(pool.batches)) \ FailedBatches}

\* C21: when the worker of a batch raises, the call of the matcher does not
\* raise, and what it returns is the candidates of the other batches, with
\* none from the failed batch, whatever the number of workers.
C21_WorkerFailureIsolated ==
    /\ pool.state # "raised"
    /\ (pool.state = "returned" /\ FailedBatches # {})
          => Range(pool.result) = SiblingCandidates

-----------------------------------------------------------------------------
(* Properties of the Normalizer *)

IsDigits(s) == DigitPrefix(s) = s

NormalizedTables ==
    (IF norm.owners_done THEN {owners} ELSE {})
        \cup (IF norm.transactions_done THEN {transactions} ELSE {})

\* C22: every normalized record has area_sqm >= 0 and a unit number that is
\* empty or a string of at least 4 digits.
C22_NormalizedAreaAndUnit ==
    \A tbl \in NormalizedTables :
    \A i \in 1..Len(tbl.rows) :
        /\ tbl.rows[i].area_sqm >= 0
        /\ \/ tbl.rows[i].unit_no = ""
           \/ IsDigits(tbl.rows[i].unit_no) /\ Len(tbl.rows[i].unit_no) >= 4


\* the number a raw area cell holds, in hundredths
RawAreaIsNumber(a) == a.t \in {"num", "int"} \/ (a.t = "str" /\ ParseFloat(a.s)[1])

RawAreaValue(a) ==
    IF a.t = "num" THEN a.n ELSE IF a.t = "int" THEN 100 * a.n ELSE ParseFloat(a.s)[2]

\* C23: normalize_area returns 0.0 for a missing or non-numeric value,
\* value * 0.092903 rounded to 2 decimals for a value below 1000 and the
\* value itself for a larger one; and, as the unit test expects, 100.5 and
\* "150.25" come back unchanged and 1000 comes back converted.
C23_NormalizeArea ==
    (norm.module = "legacy" /\ norm.owners_done) =>
        \A i \in 1..Len(owners.rows) :
            LET a == raw.owners.rows[i][" Size "]
                out == owners.rows[i].area_sqm
            IN  /\ ~RawAreaIsNumber(a) => out = 0
                /\ (RawAreaIsNumber(a) /\ RawAreaValue(a) < 100000)
                      => out = SqftToSqm(RawAreaValue(a))
                /\ (RawAreaIsNumber(a) /\ RawAreaValue(a) > 100000)
                      => out = RawAreaValue(a)
                /\ a = Num(10050) => out = 10050
                /\ a = Str("150.25") => out = 15025
                /\ a = IntCell(1000) => out = SqftToSqm(100000)


\* the raw owner records that have every mandatory field
MissingField(r, col) == col \in DOMAIN r /\ IsNA(r[col])

CompleteOwners ==
    {i \in 1..Len(raw.owners.rows) :
        LET r == raw.owners.rows[i]
        IN  /\ ~MissingField(r, " Size ")
            /\ ~MissingField(r, "BuildingNameEn")
            /\ ~MissingField(r, "ProcedurePartyTypeNameEn")}

\* C24: when the owner source has the documented columns and holds a
\* record missing its area, building or party type, the record is dropped
\* without failing the batch: the Normalizer does not raise, no more
\* records come out than there are complete ones, and the log holds the
\* counts of the records read and of the records produced.
C24_IncompleteRecordsDropped ==
    (/\ norm.owners_done
     /\ (RawOwnerCols \ {"Project"}) \subseteq raw.owners.cols
     /\ Cardinality(CompleteOwners) < Len(raw.owners.rows)) =>
        /\ norm.error = "none"
        /\ Len(owners.rows) <= Cardinality(CompleteOwners)
        /\ \E k \in 1..Len(norm.log) :
              norm.log[k].role = "owner" /\ norm.log[k].msg = "Generated"

\* raw owner i and raw transaction j agree in project, building and unit,
\* and their areas differ by less than 1% of the owner's area
SameProperty(i, j) ==
    LET o == raw.owners.rows[i]
        t == raw.transactions.rows[j]
    IN  /\ {"Project", "ProcedurePartyTypeNameEn"} \subseteq raw.owners.cols
        /\ "unit_number" \in raw.transactions.cols
        /\ o["ProcedurePartyTypeNameEn"] = Str("Buyer")
        /\ o["Project"].t = "str" /\ o["Project"] = t["project_name_en"]
        /\ o["BuildingNameEn"].t = "str" /\ o["BuildingNameEn"] = t["building_name_en"]
        /\ o["UnitNumber"].t = "str" /\ o["UnitNumber"] = t["unit_number"]
        /\ o["UnitNumber"].s # ""
        /\ RawAreaIsNumber(o[" Size "]) /\ RawAreaIsNumber(t["procedure_area"])
        /\ RawAreaValue(o[" Size "]) > 0
        /\ Abs(RawAreaValue(o[" Size "]) - RawAreaValue(t["procedure_area"])) * 100
              < RawAreaValue(o[" Size "])

\* the txn_id Tier 1 sees for raw transaction j: the id of the source, or
\* the row position when the normalized table has no txn_id
Tier1TxnId(j) == IF "txn_id" \in transactions.cols THEN j ELSE j - 1

\* C25: after both sources are normalized by src/matching/preprocess.py,
\* Tier 1 matches an owner and a transaction of the same project, building
\* and unit whose areas differ by less than 1%, with confidence 1.0, bucket
\* High and review_status auto_approved.
C25_SamePropertyMatchedByTier1 ==
    (t1runs # <<>> /\ norm.module = "legacy") =>
        \A i \in 1..Len(raw.owners.rows), j \in 1..Len(raw.transactions.rows) :
            SameProperty(i, j) =>
                /\ t1runs[1].status = "ok"
                /\ \E k \in 1..Len(t1runs[1].matches) :
                      LET m == t1runs[1].matches[k]
                      IN  /\ m.txn_id = Tier1TxnId(j)
                          /\ m.match_confidence = 10000
                          /\ m.confidence_bucket = "High"
                          /\ m.review_status = "auto_approved"

SameKeyFields(o, t) ==
    /\ o.project_clean = t.project_clean
    /\ o.building_clean = t.building_clean
    /\ o.unit_no = t.unit_no

\* C29: an owner and a transaction normalized by src/matching/preprocess.py
\* have the same composite key only if their cleaned project, building and
\* unit are equal, and every pair Tier 1 matches is equal in these fields.
C29_CompositeKeyInjective ==
    (t1runs # <<>> /\ norm.module = "legacy") =>
        /\ \A i \in 1..Len(owners.rows), j \in 1..Len(transactions.rows) :
              owners.rows[i].composite_key = transactions.rows[j].composite_key
                  => SameKeyFields(owners.rows[i], transactions.rows[j])
        /\ \A k \in 1..Len(t1runs[1].matches) :
              SameKeyFields(owners.rows[t1runs[1].matches[k].owner_id + 1],
                            transactions.rows[t1runs[1].matches[k].txn_id + 1])

\* the columns spec'd as the minimum of each source are present
DocumentedMinimumColumns ==
    /\ (RawOwnerCols \ {"Project"}) \subseteq raw.owners.cols
    /\ (RawTxnCols \ {"unit_number"}) \subseteq raw.transactions.cols

Tier1Columns == {"composite_key", "area_sqm"}

Tier2Columns == {"project_clean", "building_clean", "unit_no", "area_sqm"}

\* C30: the tables preprocess_owners and preprocess_transactions of the
\* pipeline return for sources with the documented minimum columns carry the
\* columns Tier 1 and Tier 2 require, and Tier 1 run on them does not end in
\* a schema error.
C30_NormalizedTablesCarryMatcherColumns ==
    (norm.module = "pipeline" /\ DocumentedMinimumColumns /\ norm.transactions_done) =>
        /\ norm.error = "none"
        /\ (Tier1Columns \cup Tier2Columns) \subseteq owners.cols
        /\ (Tier1Columns \cup Tier2Columns) \subseteq transactions.cols
        /\ t1runs # <<>> => t1runs[1].status # "schema_error"

-----------------------------------------------------------------------------
(* Properties of the tiers within one pipeline run *)

Tier1OwnerIds == {run.tier1_matches[i].owner_id : i \in 1..Len(run.tier1_matches)}

Tier1TxnIds == {run.tier1_matches[i].txn_id : i \in 1..Len(run.tier1_matches)}

\* C26: within one run no owner_id and no txn_id of a Tier 1 match appears
\* in a Tier 2 match: Tier 2 receives only what Tier 1 left unmatched.
C26_Tier2ReceivesOnlyResiduals ==
    \A j \in 1..Len(run.tier2_matches.rows) :
        /\ run.tier2_matches.rows[j].owner_id \notin Tier1OwnerIds
        /\ run.tier2_matches.rows[j].txn_id \notin Tier1TxnIds

\* a run in which Tier 1 matched one owner and Tier 2 matched another
C26_BothTiersMatched ==
    /\ pc = "done"
    /\ Len(run.tier1_matches) > 0
    /\ Len(run.tier2_matches.rows) > 0
    /\ Len(run.unmatched_transactions) < Len(transactions.rows) - Len(run.tier1_matches)

FinalMatchedOwnerIds == {run.all_matches[i].owner_id : i \in 1..Len(run.all_matches)}

UnmatchedOwnerIds == {run.unmatched_owners[i].owner_id : i \in 1..Len(run.unmatched_owners)}

\* C27: at the end of run_matching_pipeline every normalized owner is either
\* in the final match set or in the unmatched owners written, and not in
\* both; an owner whose only Tier 2 match a rejected decision removed is
\* written as unmatched.
C27_OwnersPartitioned ==
    pc = "done" =>
        \A i \in 1..Len(owners.rows) :
            (owners.rows[i].owner_id \in FinalMatchedOwnerIds)
                # (owners.rows[i].owner_id \in UnmatchedOwnerIds)

-----------------------------------------------------------------------------
(* Size of the frame merge_review_decisions returns *)

\* C28: merge_review_decisions returns no more rows than it was given and at
\* most one row per (owner_id, txn_id), also when the decision set holds
\* several decisions for one pair.
C28_MergeNeverAddsRows ==
    \A k \in 1..Len(results) :
        ~results[k].raised =>
            /\ Len(results[k].df.rows) <= Len(MergeInput(k).rows)
            /\ \A i, j \in 1..Len(results[k].df.rows) :
                  SamePair(results[k].df.rows[i], results[k].df.rows[j]) => i = j

=============================================================================
